---- MODULE Spec2Model ----
(***************************************************************************)
(* The weather tools of the repository: make_nws_request, format_alert,    *)
(* get_alerts and get_forecast (Coach/Solutions/Challenge-02/python/       *)
(* weather.py; challenge-03 and challenge-04 carry the same code).         *)
(*                                                                         *)
(* JSON values are tagged records, Python's operations on them (truth      *)
(* value, "in", subscription, slicing, iteration, dict.get, str) are       *)
(* operators that yield a value or the exception Python raises.  A text is *)
(* the sequence of the pieces an f-string or str.join puts one after the   *)
(* other; Render flattens it to the string.                                *)
(*                                                                         *)
(* The other programs of the repository each have a specification of their *)
(* own over one record variable: the remote server's tool table (server),  *)
(* concurrent tool invocations (conc), make_nws_request step by step       *)
(* (req), add (sum), the interactive session loops (session), the polling  *)
(* conversation loop of agent.py (poll) and MCPIntegratedAgent (mcp).  A   *)
(* specification leaves the variables of the others at Off.                *)
(***************************************************************************)
EXTENDS Integers, Sequences, FiniteSets, TLC

VARIABLES pc, tool, args, requests, outcomes, forecast_url, result, raised,
          server, conc, req, sum, session, poll, mcp

weatherVars == <<pc, tool, args, requests, outcomes, forecast_url, result, raised>>

vars == <<weatherVars, server, conc, req, sum, session, poll, mcp>>

\* a program that is not running in the specification at hand
Off == [pc |-> "off"]

\* the frame of the weather tools' actions
notWeather == <<conc, req, sum, session, poll, mcp>>

(***************************************************************************)
(* Bounds                                                                  *)
(***************************************************************************)
MaxPeriods == 8

MaxAlerts == 6

\* the tool invocations in flight at the same time
NInvocations == 2

\* the lines typed in one interactive session
MaxLines == 3

\* the queries submitted in one conversation of agent.py, and the times one
\* run is found queued or in progress
MaxQueries == 2

MaxPolls == 2

\* the queries of one session of MCPIntegratedAgent
MaxSessionQueries == 2

\* add is applied to the integers of -MaxAbs..MaxAbs
MaxAbs == 5

(***************************************************************************)
(* JSON values as response.json() yields them                              *)
(***************************************************************************)
JNull == [kind |-> "null"]

JBool(b) == [kind |-> "bool", b |-> b]

JNum(n) == [kind |-> "num", n |-> n]

JStr(s) == [kind |-> "str", s |-> s]

JList(items) == [kind |-> "list", items |-> items]

JObj(fields) == [kind |-> "obj", fields |-> fields]

EmptyFields == [k \in {} |-> JNull]

\* Python's None: the absence signal of make_nws_request, and JSON null
None == JNull

(***************************************************************************)
(* Outcome of evaluating a Python expression: a value, or an exception     *)
(***************************************************************************)
Ok(v) == [exc |-> "", val |-> v]

Raise(e) == [exc |-> e, val |-> None]

RaiseText(e) == [exc |-> e, val |-> <<>>]

\* bool(v), as "not v" uses it
PyTruthy(v) ==
    CASE v.kind = "null" -> FALSE
      [] v.kind = "bool" -> v.b
      [] v.kind = "num"  -> v.n # 0
      [] v.kind = "str"  -> v.s # ""
      [] v.kind = "list" -> v.items # <<>>
      [] v.kind = "obj"  -> DOMAIN v.fields # {}

\* key in v, for a string key.  On a str Python tests for a substring; no
\* string used here properly contains a key, so that is equality.
PyContains(key, v) ==
    CASE v.kind = "obj"  -> Ok(key \in DOMAIN v.fields)
      [] v.kind = "list" -> Ok(\E i \in 1..Len(v.items) : v.items[i] = JStr(key))
      [] v.kind = "str"  -> Ok(v.s = key)
      [] v.kind \in {"null", "bool", "num"} -> [exc |-> "TypeError", val |-> FALSE]

\* v[key], for a string key
PyGetItem(v, key) ==
    IF v.kind = "obj"
    THEN IF key \in DOMAIN v.fields THEN Ok(v.fields[key]) ELSE Raise("KeyError")
    ELSE Raise("TypeError")

\* v.get(key) or default: a null or empty value replaced by the default too
PyDictGet_or_default(v, key, default) ==
    IF v.kind = "obj"
    THEN Ok(IF key \in DOMAIN v.fields /\ PyTruthy(v.fields[key])
            THEN v.fields[key] ELSE default)
    ELSE Raise("AttributeError")

\* v.get(key, default)
PyDictGet(v, key, default) ==
    IF v.kind = "obj"
    THEN Ok(IF key \in DOMAIN v.fields THEN v.fields[key] ELSE default)
    ELSE Raise("AttributeError")

\* v[:n].  Slicing a dict raises (TypeError, or KeyError from Python 3.12 on).
PySlice(v, n) ==
    CASE v.kind = "list" ->
           Ok(JList(SubSeq(v.items, 1, IF Len(v.items) < n THEN Len(v.items) ELSE n)))
      [] v.kind = "str" /\ Len(v.s) <= n -> Ok(v)
      [] v.kind = "obj"  -> Raise("TypeError")
      [] v.kind \in {"null", "bool", "num"} -> Raise("TypeError")

\* the sequence "for e in v" walks: the items of a list, the keys of a dict,
\* the characters of a str (strings iterated here have at most one character)
PyIter(v) ==
    CASE v.kind = "list" -> Ok(v.items)
      [] v.kind = "obj" /\ Cardinality(DOMAIN v.fields) <= 1 ->
           Ok(IF DOMAIN v.fields = {} THEN <<>>
              ELSE <<JStr(CHOOSE k \in DOMAIN v.fields : TRUE)>>)
      [] v.kind = "str" /\ Len(v.s) <= 1 ->
           Ok(IF v.s = "" THEN <<>> ELSE <<v>>)
      [] v.kind \in {"null", "bool", "num"} -> [exc |-> "TypeError", val |-> <<>>]

\* str(v), as an f-string field applies it, on the scalars fields carry
PyStr(v) ==
    CASE v.kind = "str"  -> v.s
      [] v.kind = "num"  -> ToString(v.n)
      [] v.kind = "null" -> "None"
      [] v.kind = "bool" -> IF v.b THEN "True" ELSE "False"

\* str(x) of a float x with an integral value
PyFloatStr(n) == ToString(n) \o ".0"

(***************************************************************************)
(* Texts                                                                   *)
(***************************************************************************)
RECURSIVE Render(_)
Render(text) ==
    IF text = <<>> THEN "" ELSE Head(text) \o Render(Tail(text))

Separator == "\n---\n"

\* sep.join(blocks)
RECURSIVE str_join(_, _)
str_join(sep, blocks) ==
    IF blocks = <<>> THEN <<>>
    ELSE IF Len(blocks) = 1 THEN Head(blocks)
    ELSE Head(blocks) \o <<sep>> \o str_join(sep, Tail(blocks))

(***************************************************************************)
(* Constants of weather.py                                                 *)
(***************************************************************************)
NWS_API_BASE == "https://api.weather.gov"

USER_AGENT == "weather-tool/1.0"

MsgAlertsUnavailable == "Unable to fetch alerts or no alerts found."

MsgNoAlerts == "No active alerts for this state."

MsgPointsUnavailable == "Unable to fetch forecast data for this location."

MsgNoForecastUrl == "Unable to determine forecast URL for this location."

\* the phase-1 message pasted into the phase-2 branch
MsgForecastUnavailable_copied == "Unable to fetch forecast data for this location."

MsgForecastUnavailable == "Unable to fetch detailed forecast."

(***************************************************************************)
(* The upstream service: what one GET can come to                          *)
(***************************************************************************)
FailureKinds == {"network_error", "timeout", "http_error", "invalid_json"}

\* every way one GET of url can end, the 2xx bodies drawn from bodies; a url
\* that is not a string makes client.get itself raise
UpstreamOutcomes(url, bodies) ==
    IF url.kind # "str"
    THEN {[how |-> "invalid_url", body |-> None]}
    ELSE {[how |-> f, body |-> None] : f \in FailureKinds}
         \cup {[how |-> "ok", body |-> b] : b \in bodies}

Headers == [h \in {"User-Agent", "Accept"} |->
               IF h = "User-Agent" THEN USER_AGENT ELSE "application/geo+json"]

Timeout == 30

\* the GET make_nws_request issues for url
Request(url) == [url |-> url, headers |-> Headers, timeout |-> Timeout]

\* client.get in a retry loop
issued_again(reqs, url) == reqs \o <<Request(url), Request(url)>>

\* the log of GETs after make_nws_request(url) issued its one client.get
issued(reqs, url) == Append(reqs, Request(url))

\* what make_nws_request returns when its GET ends as outcome o: the parsed
\* body, or None for whatever the try block raised
make_nws_request(url, o) ==
    IF o.how = "ok" THEN o.body ELSE None

SeqsUpTo(S, n) == UNION {[1..k -> S] : k \in 0..n}

(***************************************************************************)
(* format_alert                                                            *)
(***************************************************************************)
AlertKeys == <<"event", "areaDesc", "severity", "description", "instruction">>

AlertLabels == <<"\nEvent: ", "\nArea: ", "\nSeverity: ", "\nDescription: ",
                 "\nInstructions: ">>

\* the description placeholder pasted into the instruction field
AlertDefaults_copied ==
    <<"Unknown", "Unknown", "Unknown", "No description available",
      "No description available">>

AlertDefaults == <<"Unknown", "Unknown", "Unknown", "No description available",
                   "No specific instructions provided">>

format_alert(feature) ==
    LET p == PyGetItem(feature, "properties") IN
    IF p.exc # "" THEN RaiseText(p.exc)
    ELSE LET props == p.val
             field(i) == PyDictGet(props, AlertKeys[i], JStr(AlertDefaults[i]))
         IN  IF props.kind # "obj" THEN RaiseText(field(1).exc)
             ELSE Ok(<<AlertLabels[1], PyStr(field(1).val),
                       AlertLabels[2], PyStr(field(2).val),
                       AlertLabels[3], PyStr(field(3).val),
                       AlertLabels[4], PyStr(field(4).val),
                       AlertLabels[5], PyStr(field(5).val), "\n">>)

\* [format_alert(feature) for feature in features]: the blocks, or the first
\* exception a feature raises
RECURSIVE format_alerts(_)
format_alerts(features) ==
    IF features = <<>> THEN Ok(<<>>)
    ELSE LET b == format_alert(Head(features)) IN
         IF b.exc # "" THEN RaiseText(b.exc)
         ELSE LET rest == format_alerts(Tail(features)) IN
              IF rest.exc # "" THEN rest ELSE Ok(<<b.val>> \o rest.val)

(***************************************************************************)
(* get_alerts, from the return of make_nws_request on                      *)
(***************************************************************************)
AlertsUrl(state) == NWS_API_BASE \o "/alerts/active/area/" \o state

\* not data or not data.get("features"): the empty list taken for a failure
alerts_unavailable_or_empty(data) ==
    IF ~PyTruthy(data) THEN Ok(TRUE)
    ELSE LET f == PyDictGet(data, "features", None) IN
         IF f.exc # "" THEN [exc |-> f.exc, val |-> FALSE] ELSE Ok(~PyTruthy(f.val))

\* not data or "features" not in data
alerts_unavailable(data) ==
    IF ~PyTruthy(data) THEN Ok(TRUE)
    ELSE LET c == PyContains("features", data) IN
         IF c.exc # "" THEN c ELSE Ok(~c.val)

\* not data["features"]
no_alerts(data) ==
    LET f == PyGetItem(data, "features") IN
    IF f.exc # "" THEN [exc |-> f.exc, val |-> FALSE] ELSE Ok(~PyTruthy(f.val))

\* data["features"][:5]: the forecast's truncation applied to the alerts
alerts_shown_truncated(data) ==
    LET s == PySlice(PyGetItem(data, "features").val, 5) IN
    IF s.exc # "" THEN [exc |-> s.exc, val |-> <<>>] ELSE PyIter(s.val)

\* the features the comprehension walks, all of them
alerts_shown(data) == PyIter(PyGetItem(data, "features").val)

get_alerts_result(data) ==
    LET u == alerts_unavailable(data) IN
    IF u.exc # "" THEN RaiseText(u.exc)
    ELSE IF u.val THEN Ok(<<MsgAlertsUnavailable>>)
    ELSE LET e == no_alerts(data) IN
         IF e.exc # "" THEN RaiseText(e.exc)
         ELSE IF e.val THEN Ok(<<MsgNoAlerts>>)
         ELSE LET it == alerts_shown(data) IN
              IF it.exc # "" THEN RaiseText(it.exc)
              ELSE LET alerts == format_alerts(it.val) IN
                   IF alerts.exc # "" THEN alerts
                   ELSE Ok(str_join(Separator, alerts.val))

(***************************************************************************)
(* get_forecast, from the return of each make_nws_request on               *)
(***************************************************************************)
PointsUrl(latitude, longitude) ==
    NWS_API_BASE \o "/points/" \o PyFloatStr(latitude) \o "," \o PyFloatStr(longitude)

\* the check of points_data left out
points_unchecked(points_data) == FALSE

\* not points_data
points_unavailable(points_data) == ~PyTruthy(points_data)

\* points_data["properties"]["forecast"]
forecast_url_of(points_data) ==
    LET p == PyGetItem(points_data, "properties") IN
    IF p.exc # "" THEN p ELSE PyGetItem(p.val, "forecast")

\* not forecast_data or not forecast_data["properties"].get("periods"): the
\* empty list of periods taken for a failure
forecast_unavailable_or_empty(forecast_data) ==
    \/ ~PyTruthy(forecast_data)
    \/ /\ forecast_data.kind = "obj"
       /\ "properties" \in DOMAIN forecast_data.fields
       /\ forecast_data.fields["properties"].kind = "obj"
       /\ "periods" \in DOMAIN forecast_data.fields["properties"].fields
       /\ ~PyTruthy(forecast_data.fields["properties"].fields["periods"])

\* not forecast_data
forecast_unavailable(forecast_data) == ~PyTruthy(forecast_data)

\* forecast_data["properties"]["periods"]
periods_of(forecast_data) ==
    LET p == PyGetItem(forecast_data, "properties") IN
    IF p.exc # "" THEN p ELSE PyGetItem(p.val, "periods")

ShownPeriods == 5

\* periods[:6]
periods_shown_one_more(periods) == PySlice(periods, ShownPeriods + 1)

\* periods[:5]
periods_shown(periods) == PySlice(periods, ShownPeriods)

PeriodKeys == <<"name", "temperature", "temperatureUnit", "windSpeed",
                "windDirection", "detailedForecast">>

\* the f-string of one period: its fields are subscripted left to right
format_period(period) ==
    LET field(i) == PyGetItem(period, PeriodKeys[i])
        bad == {i \in 1..6 : field(i).exc # ""}
    IN  IF bad # {}
        THEN RaiseText(field(CHOOSE i \in bad : \A j \in bad : i <= j).exc)
        ELSE Ok(<<"\n", PyStr(field(1).val),
                  ":\nTemperature: ", PyStr(field(2).val), "°", PyStr(field(3).val),
                  "\nWind: ", PyStr(field(4).val), " ", PyStr(field(5).val),
                  "\nForecast: ", PyStr(field(6).val), "\n">>)

\* the loop over periods[:5]: the blocks appended, or the first exception
RECURSIVE format_periods(_)
format_periods(periods) ==
    IF periods = <<>> THEN Ok(<<>>)
    ELSE LET b == format_period(Head(periods)) IN
         IF b.exc # "" THEN RaiseText(b.exc)
         ELSE LET rest == format_periods(Tail(periods)) IN
              IF rest.exc # "" THEN rest ELSE Ok(<<b.val>> \o rest.val)

get_forecast_result(forecast_data) ==
    IF forecast_unavailable(forecast_data) THEN Ok(<<MsgForecastUnavailable>>)
    ELSE LET periods == periods_of(forecast_data) IN
         IF periods.exc # "" THEN RaiseText(periods.exc)
         ELSE LET shown == periods_shown(periods.val) IN
              IF shown.exc # "" THEN RaiseText(shown.exc)
              ELSE LET it == PyIter(shown.val) IN
                   IF it.exc # "" THEN RaiseText(it.exc)
                   ELSE LET forecasts == format_periods(it.val) IN
                        IF forecasts.exc # "" THEN forecasts
                        ELSE Ok(str_join(Separator, forecasts.val))

(***************************************************************************)
(* Inputs: region codes and the bodies upstream answers the alerts GET with *)
(***************************************************************************)
States == {"CA", "ZZ"}

AlertValues == <<"Flood Warning", "King County", "Severe", "Heavy rain.",
                 "Move to higher ground.">>

\* a feature whose properties carry the keys of S as strings and those of N
\* as null, and lack the others
AlertFeature(S, N) ==
    JObj([p \in {"properties"} |->
            JObj([k \in S \cup N |->
                    IF k \in N THEN JNull
                    ELSE JStr(AlertValues[CHOOSE i \in 1..5 : AlertKeys[i] = k])])])

AlertKeySet == {AlertKeys[i] : i \in 1..5}

\* every feature with each optional field absent, a string, or null
AlertFeatures ==
    {AlertFeature(S, N) : S \in SUBSET AlertKeySet, N \in SUBSET AlertKeySet}

FullAlert == AlertFeature(AlertKeySet, {})

BareAlert ==
    JObj([p \in {"properties"} |-> JObj([k \in {"event"} |-> JStr("Heat Advisory")])])

NoPropertiesAlert == JObj([k \in {"id"} |-> JStr("x")])

\* an alert whose severity upstream gives as "Unknown", a value of the
\* service's severity scale, and that carries no instruction
UnknownSeverityAlert ==
    JObj([p \in {"properties"} |->
            JObj([k \in {"event", "severity", "instruction"} |->
                    CASE k = "event" -> JStr("Special Weather Statement")
                      [] k = "severity" -> JStr("Unknown")
                      [] k = "instruction" -> JNull])])

FeatureLists ==
    SeqsUpTo({FullAlert, BareAlert, NoPropertiesAlert}, MaxAlerts)
    \cup {<<f>> : f \in AlertFeatures}
    \cup {<<UnknownSeverityAlert>>, <<FullAlert, UnknownSeverityAlert>>}
    \cup {<<JNum(1)>>, <<JObj([p \in {"properties"} |-> JNull])>>,
          <<FullAlert, JStr("x")>>}

FeaturesValues ==
    {JNull, JNum(0), JNum(1), JBool(FALSE), JStr(""), JStr("x"),
     JObj(EmptyFields), JObj([k \in {"a"} |-> JNum(1)])}
    \cup {JList(l) : l \in FeatureLists}

AlertsBodies ==
    {JNull, JObj(EmptyFields), JList(<<>>), JNum(0), JNum(1), JBool(TRUE),
     JStr(""), JStr("features"), JList(<<JStr("x")>>), JList(<<JStr("features")>>),
     JObj([k \in {"title"} |-> JStr("x")])}
    \cup {JObj([k \in {"features"} |-> v]) : v \in FeaturesValues}
    \cup {JObj([k \in {"type", "features"} |->
                  IF k = "type" THEN JStr("FeatureCollection") ELSE JList(<<>>)])}

(***************************************************************************)
(* Inputs: coordinates and the bodies upstream answers the two forecast    *)
(* GETs with                                                               *)
(***************************************************************************)
Coordinates == {<<47, -122>>, <<0, 0>>}

GridForecastUrl == NWS_API_BASE \o "/gridpoints/SEW/124,67/forecast"

\* the endpoint references upstream may give: a forecast URL, the URL that
\* was just requested, or something that is no string
ForecastRefs(points_url) == {JStr(GridForecastUrl), JStr(points_url), JNull}

PointsBodies(points_url) ==
    {JNull, JObj(EmptyFields), JList(<<>>), JNum(0), JNum(1), JStr("x"),
     JList(<<JStr("properties")>>),
     JObj([k \in {"id"} |-> JStr("x")]),
     JObj([k \in {"properties"} |-> JNull]),
     JObj([k \in {"properties"} |-> JStr("x")]),
     JObj([k \in {"properties"} |-> JList(<<>>)]),
     JObj([k \in {"properties"} |-> JObj(EmptyFields)]),
     JObj([k \in {"properties"} |-> JObj([j \in {"cwa"} |-> JStr("SEW")])])}
    \cup {JObj([k \in {"properties"} |-> JObj([j \in {"forecast"} |-> ref])]) :
             ref \in ForecastRefs(points_url)}

PeriodValues(n) ==
    IF n = 1 THEN <<JStr("Tonight"), JNum(55), JStr("F"), JStr("5 mph"), JStr("NW"),
                    JStr("Clear.")>>
    ELSE <<JStr("Friday"), JNum(-3), JStr("C"), JStr("10 to 15 mph"), JStr("S"),
           JStr("Snow likely.")>>

PeriodKeySet == {PeriodKeys[i] : i \in 1..6}

\* period n with the keys of S only
Period(n, S) ==
    JObj([k \in S |-> PeriodValues(n)[CHOOSE i \in 1..6 : PeriodKeys[i] = k]])

PeriodLists ==
    SeqsUpTo({Period(1, PeriodKeySet), Period(2, PeriodKeySet),
              Period(1, PeriodKeySet \ {"windSpeed"})}, MaxPeriods)
    \cup {<<Period(2, PeriodKeySet \ {k})>> : k \in PeriodKeySet}
    \cup {<<JNum(1)>>, <<Period(1, PeriodKeySet), JStr("x")>>}

PeriodsValues ==
    {JNull, JNum(1), JStr(""), JStr("x"), JObj(EmptyFields)}
    \cup {JList(l) : l \in PeriodLists}

ForecastBodies ==
    {JNull, JObj(EmptyFields), JList(<<>>), JNum(1), JList(<<JNum(1)>>),
     JObj([k \in {"id"} |-> JStr("x")]),
     JObj([k \in {"properties"} |-> JNull]),
     JObj([k \in {"properties"} |-> JObj(EmptyFields)])}
    \cup {JObj([k \in {"properties"} |-> JObj([j \in {"periods"} |-> v])]) :
             v \in PeriodsValues}

(***************************************************************************)
(* The tool table of the server (weather_remote_server.py): FastMCP's      *)
(* @mcp.tool() enters the decorated function under its own name, with the  *)
(* parameters and the return type its signature declares                   *)
(***************************************************************************)
NoTools == [name \in {} |-> Off]

Param(name, type) == [name |-> name, type |-> type]

\* @mcp.tool() on "async def name(params) -> returns"
mcp_tool(table, name, params, returns) ==
    [n \in DOMAIN table \cup {name} |->
        IF n = name THEN [params |-> params, returns |-> returns] ELSE table[n]]

\* the decorator left off get_forecast
tool_table_undecorated ==
    mcp_tool(NoTools, "get_alerts", <<Param("state", "str")>>, "str")

\* the table once the module is imported
tool_table ==
    mcp_tool(mcp_tool(NoTools, "get_alerts", <<Param("state", "str")>>, "str"),
             "get_forecast",
             <<Param("latitude", "float"), Param("longitude", "float")>>, "str")

\* the "tools" entry of the answer of GET /
root_tools == <<"get_forecast", "get_alerts">>

\* the server after start-up: its table, and the tool list GET / last gave
ServerStarted == [pc |-> "serving", registry |-> tool_table, advertised |-> <<>>]

(***************************************************************************)
(* One tool invocation at a time: the caller invokes a tool, the tool      *)
(* suspends at each await, and ends by returning a text or raising         *)
(***************************************************************************)
Init ==
    /\ pc = "idle"
    /\ tool = "none"
    /\ args = <<>>
    /\ requests = <<>>
    /\ outcomes = <<>>
    /\ forecast_url = None
    /\ result = <<>>
    /\ raised = ""
    /\ server = ServerStarted
    /\ conc = Off
    /\ req = Off
    /\ sum = Off
    /\ session = Off
    /\ poll = Off
    /\ mcp = Off

\* the invocation ends: r is what the rest of the coroutine came to
Finish(r) ==
    /\ pc' = IF r.exc # "" THEN "raised" ELSE "returned"
    /\ result' = r.val
    /\ raised' = r.exc

\* get_alerts up to its await
GetAlertsCall(state) ==
    /\ pc = "idle"
    /\ "get_alerts" \in DOMAIN server.registry
    /\ pc' = "alerts"
    /\ tool' = "get_alerts"
    /\ args' = <<state>>
    /\ requests' = issued(<<>>, JStr(AlertsUrl(state)))
    /\ UNCHANGED <<outcomes, forecast_url, result, raised, server, notWeather>>

\* get_alerts from its await to its end
GetAlertsResume ==
    /\ pc = "alerts"
    /\ \E o \in UpstreamOutcomes(requests[1].url, AlertsBodies) :
         /\ outcomes' = Append(outcomes, o)
         /\ Finish(get_alerts_result(make_nws_request(requests[1].url, o)))
    /\ UNCHANGED <<tool, args, requests, forecast_url, server, notWeather>>

\* get_forecast up to its first await
GetForecastCall(latitude, longitude) ==
    /\ pc = "idle"
    /\ "get_forecast" \in DOMAIN server.registry
    /\ pc' = "points"
    /\ tool' = "get_forecast"
    /\ args' = <<latitude, longitude>>
    /\ requests' = issued(<<>>, JStr(PointsUrl(latitude, longitude)))
    /\ UNCHANGED <<outcomes, forecast_url, result, raised, server, notWeather>>

\* get_forecast from its first await to its second, or to its end
GetForecastPoints ==
    /\ pc = "points"
    /\ \E o \in UpstreamOutcomes(requests[1].url, PointsBodies(requests[1].url.s)) :
         LET points_data == make_nws_request(requests[1].url, o)
             url == forecast_url_of(points_data)
         IN  /\ outcomes' = Append(outcomes, o)
             /\ IF points_unavailable(points_data)
                THEN /\ Finish(Ok(<<MsgPointsUnavailable>>))
                     /\ UNCHANGED <<requests, forecast_url>>
                ELSE IF url.exc = "KeyError"
                THEN /\ Finish(Ok(<<MsgNoForecastUrl>>))
                     /\ UNCHANGED <<requests, forecast_url>>
                ELSE IF url.exc # ""
                THEN /\ Finish(RaiseText(url.exc))
                     /\ UNCHANGED <<requests, forecast_url>>
                ELSE /\ forecast_url' = url.val
                     /\ requests' = issued(requests, url.val)
                     /\ pc' = "forecast"
                     /\ UNCHANGED <<result, raised>>
    /\ UNCHANGED <<tool, args, server, notWeather>>

\* get_forecast from its second await to its end
GetForecastData ==
    /\ pc = "forecast"
    /\ \E o \in UpstreamOutcomes(forecast_url, ForecastBodies) :
         /\ outcomes' = Append(outcomes, o)
         /\ Finish(get_forecast_result(make_nws_request(forecast_url, o)))
    /\ UNCHANGED <<tool, args, requests, forecast_url, server, notWeather>>

\* the caller takes the text or the exception; nothing outlives the invocation
Complete ==
    /\ pc \in {"returned", "raised"}
    /\ pc' = "idle"
    /\ tool' = "none"
    /\ args' = <<>>
    /\ requests' = <<>>
    /\ outcomes' = <<>>
    /\ forecast_url' = None
    /\ result' = <<>>
    /\ raised' = ""
    /\ UNCHANGED <<server, notWeather>>

\* GET / of the remote server
Root ==
    /\ server.pc = "serving"
    /\ server.advertised = <<>>
    /\ server' = [server EXCEPT !.advertised = root_tools]
    /\ UNCHANGED <<weatherVars, notWeather>>

Next ==
    \/ Root
    \/ \E state \in States : GetAlertsCall(state)
    \/ GetAlertsResume
    \/ \E c \in Coordinates : GetForecastCall(c[1], c[2])
    \/ GetForecastPoints
    \/ GetForecastData
    \/ Complete

Spec == Init /\ [][Next]_vars

\* the weather tools at rest, as the other specifications leave them
WeatherIdle ==
    /\ pc = "idle"
    /\ tool = "none"
    /\ args = <<>>
    /\ requests = <<>>
    /\ outcomes = <<>>
    /\ forecast_url = None
    /\ result = <<>>
    /\ raised = ""

(***************************************************************************)
(* add (src-pf/add.py), applied to arguments drawn when it is called       *)
(***************************************************************************)
\* return a - b
add_minus(a, b) == a - b

\* return a + b; Python's integers have no width
add(a, b) == a + b

\* the arguments: a range around zero, and the large numbers of test_add.py
AddArguments == (-MaxAbs..MaxAbs) \cup {1000000, 2000000}

InitAdd ==
    /\ WeatherIdle
    /\ server = Off
    /\ conc = Off
    /\ req = Off
    /\ \E a, b \in AddArguments : sum = [pc |-> "called", a |-> a, b |-> b, value |-> 0]
    /\ session = Off
    /\ poll = Off
    /\ mcp = Off

AddReturn ==
    /\ sum.pc = "called"
    /\ sum' = [sum EXCEPT !.pc = "returned", !.value = add(sum.a, sum.b)]
    /\ UNCHANGED <<weatherVars, server, conc, req, session, poll, mcp>>

NextAdd == AddReturn

SpecAdd == InitAdd /\ [][NextAdd]_vars

(***************************************************************************)
(* make_nws_request step by step: the client is opened, client.get is      *)
(* awaited, the response is checked and parsed inside the try block, the   *)
(* except clause turns what was raised into None, and the client is closed *)
(***************************************************************************)
\* the classes "except Exception" catches; asyncio.CancelledError derives
\* from BaseException and passes through
ExceptionClasses ==
    {"ConnectError", "ReadTimeout", "TypeError", "HTTPStatusError", "JSONDecodeError"}

SuccessStatuses == 200..299

Statuses == {200, 204, 301, 404, 500, 503}

\* the body texts upstream or a proxy in front of it answers with
BodyTexts ==
    {"", "<html>Bad Gateway</html>", "{\"features\": [", "null", "{}",
     "{\"features\": []}", "{\"status\": 404}"}

\* json.loads on the body texts
json_loads(text) ==
    CASE text = "null" -> Ok(JNull)
      [] text = "{}" -> Ok(JObj(EmptyFields))
      [] text = "{\"features\": []}" -> Ok(JObj([k \in {"features"} |-> JList(<<>>)]))
      [] text = "{\"status\": 404}" -> Ok(JObj([k \in {"status"} |-> JNum(404)]))
      [] text \in {"", "<html>Bad Gateway</html>", "{\"features\": ["} ->
           Raise("JSONDecodeError")

NoResponse(how) == [how |-> how, status |-> 0, text |-> ""]

\* what awaiting client.get(url, headers=headers, timeout=30.0) comes to
GetOutcomes(url) ==
    IF url.kind # "str" THEN {NoResponse("invalid_url")}
    ELSE {NoResponse("network_error"), NoResponse("timeout"), NoResponse("cancelled")}
         \cup {[how |-> "response", status |-> st, text |-> t] :
                  st \in Statuses, t \in BodyTexts}

\* await client.get(...): the response, or the exception it raises
client_get(o) ==
    CASE o.how = "response" -> Ok(o)
      [] o.how = "network_error" -> Raise("ConnectError")
      [] o.how = "timeout" -> Raise("ReadTimeout")
      [] o.how = "invalid_url" -> Raise("TypeError")
      [] o.how = "cancelled" -> Raise("CancelledError")

\* the check of the status left out
raise_for_status_skipped(response) == Ok(response)

\* response.raise_for_status()
raise_for_status(response) ==
    IF response.status \in SuccessStatuses THEN Ok(response) ELSE Raise("HTTPStatusError")

\* response.json()
response_json(response) == json_loads(response.text)

\* the try block
try_block(o) ==
    LET response == client_get(o) IN
    IF response.exc # "" THEN response
    ELSE LET checked == raise_for_status(response.val) IN
         IF checked.exc # "" THEN Raise(checked.exc)
         ELSE response_json(response.val)

\* the try statement: except Exception: return None
try_except(o) ==
    LET r == try_block(o) IN
    IF r.exc \in ExceptionClasses THEN Ok(None) ELSE r

RequestUrls == {JStr(AlertsUrl("CA")), JStr(PointsUrl(47, -122)), JNull}

NotSent == [url |-> None, headers |-> [h \in {} |-> ""], timeout |-> 0]

InitRequest ==
    /\ WeatherIdle
    /\ server = Off
    /\ conc = Off
    /\ \E url \in RequestUrls :
         req = [pc |-> "called", url |-> url, client |-> "none", sent |-> NotSent,
                outcome |-> NoResponse("none"), returns |-> Ok(None)]
    /\ sum = Off
    /\ session = Off
    /\ poll = Off
    /\ mcp = Off

\* the headers are built, the client is opened, client.get is issued
RequestGet ==
    /\ req.pc = "called"
    /\ req' = [req EXCEPT !.pc = "awaiting", !.client = "open",
                          !.sent = Request(req.url)]
    /\ UNCHANGED <<weatherVars, server, conc, sum, session, poll, mcp>>

\* client.get ends; the rest of the try statement runs to the return
RequestResume ==
    /\ req.pc = "awaiting"
    /\ \E o \in GetOutcomes(req.url) :
         req' = [req EXCEPT !.pc = "closing", !.outcome = o, !.returns = try_except(o)]
    /\ UNCHANGED <<weatherVars, server, conc, sum, session, poll, mcp>>

\* the async with block is left: the client is closed, the coroutine ends
RequestClose ==
    /\ req.pc = "closing"
    /\ req' = [req EXCEPT !.pc = IF req.returns.exc = "" THEN "returned" ELSE "raised",
                          !.client = "closed"]
    /\ UNCHANGED <<weatherVars, server, conc, sum, session, poll, mcp>>

NextRequest == RequestGet \/ RequestResume \/ RequestClose

SpecRequest == InitRequest /\ [][NextRequest]_vars

(***************************************************************************)
(* Several invocations in flight: the event loop runs one coroutine at a   *)
(* time up to its next await; upstream answers the pending GETs in any     *)
(* order.  Each make_nws_request opens an httpx.AsyncClient of its own     *)
(* (async with), the only place a response is held until the coroutine     *)
(* resumes.                                                                *)
(***************************************************************************)
ConcCalls == {[tool |-> "get_alerts", args |-> <<"CA">>],
              [tool |-> "get_forecast", args |-> <<47, -122>>]}

ConcAlertsBodies ==
    {JObj(EmptyFields), JObj([k \in {"features"} |-> JList(<<>>)]),
     JObj([k \in {"features"} |-> JList(<<FullAlert>>)])}

ConcPointsBodies ==
    {JObj([k \in {"properties"} |-> JObj(EmptyFields)]),
     JObj([k \in {"properties"} |-> JObj([j \in {"forecast"} |-> JStr(GridForecastUrl)])])}

ConcForecastBodies ==
    {JObj([k \in {"properties"} |-> JObj(EmptyFields)]),
     JObj([k \in {"properties"} |->
             JObj([j \in {"periods"} |-> JList(<<Period(1, PeriodKeySet)>>)])])}

\* the ways the pending GET of an invocation can end
ConcOutcomes(at) ==
    {[how |-> "timeout", body |-> None]}
    \cup {[how |-> "ok", body |-> b] :
             b \in CASE at = "alerts" -> ConcAlertsBodies
                    [] at = "points" -> ConcPointsBodies
                    [] at = "forecast" -> ConcForecastBodies}

NoOutcome == [how |-> "none", body |-> None]

\* one client at module level, used by every request
client_shared(opened) == 1

\* async with httpx.AsyncClient() as client: a new client for this request,
\* the opened-th one of the process
client_of(opened) == opened

ClientIds == 1..(2 * NInvocations)

NewInvocation ==
    [pc |-> "new", tool |-> "none", args |-> <<>>, url |-> None, client |-> 0,
     delivered |-> FALSE,
     forecast_url |-> None, own |-> <<>>, result |-> <<>>, raised |-> ""]

UnusedClient == [state |-> "unused", users |-> {}, response |-> NoOutcome]

InitConc ==
    /\ WeatherIdle
    /\ server = Off
    /\ conc = [pc |-> "running", opened |-> 0,
               inv |-> [i \in 1..NInvocations |-> NewInvocation],
               clients |-> [c \in ClientIds |-> UnusedClient]]
    /\ req = Off
    /\ sum = Off
    /\ session = Off
    /\ poll = Off
    /\ mcp = Off

\* make_nws_request up to its await, in invocation i: a client is opened
\* and the GET is pending on it
ConcRequest(c, i, at, url) ==
    LET id == client_of(c.opened + 1) IN
    [c EXCEPT !.opened = @ + 1,
              !.inv[i].pc = at,
              !.inv[i].url = url,
              !.inv[i].client = id,
              !.inv[i].delivered = FALSE,
              !.clients[id] = [state |-> "open", users |-> @.users \cup {i},
                               response |-> NoOutcome]]

\* get_forecast from its first await on: the end it comes to, or the URL of
\* its second GET
points_step(points_data) ==
    LET url == forecast_url_of(points_data) IN
    IF points_unavailable(points_data)
    THEN [ends |-> TRUE, r |-> Ok(<<MsgPointsUnavailable>>), url |-> None]
    ELSE IF url.exc = "KeyError"
    THEN [ends |-> TRUE, r |-> Ok(<<MsgNoForecastUrl>>), url |-> None]
    ELSE IF url.exc # ""
    THEN [ends |-> TRUE, r |-> RaiseText(url.exc), url |-> None]
    ELSE [ends |-> FALSE, r |-> Ok(<<>>), url |-> url.val]

\* the invocation ends: the client of its last request has been closed
ConcFinish(c, i, r) ==
    [c EXCEPT !.inv[i].pc = IF r.exc # "" THEN "raised" ELSE "returned",
              !.inv[i].result = r.val,
              !.inv[i].raised = r.exc,
              !.clients[c.inv[i].client].state = "closed"]

\* the hosting agent dispatches a tool call: the coroutine runs to its
\* first await
ConcCall(i) ==
    /\ conc.pc = "running"
    /\ conc.inv[i].pc = "new"
    /\ \E call \in ConcCalls :
         conc' = ConcRequest([conc EXCEPT !.inv[i].tool = call.tool,
                                         !.inv[i].args = call.args],
                             i,
                             IF call.tool = "get_alerts" THEN "alerts" ELSE "points",
                             IF call.tool = "get_alerts"
                             THEN JStr(AlertsUrl(call.args[1]))
                             ELSE JStr(PointsUrl(call.args[1], call.args[2])))
    /\ UNCHANGED <<weatherVars, server, req, sum, session, poll, mcp>>

\* upstream answers the pending GET of invocation i: the response arrives
\* at the client the GET was issued on
ConcDeliver(i) ==
    /\ conc.pc = "running"
    /\ conc.inv[i].pc \in {"alerts", "points", "forecast"}
    /\ ~conc.inv[i].delivered
    /\ \E o \in ConcOutcomes(conc.inv[i].pc) :
         conc' = [conc EXCEPT !.inv[i].delivered = TRUE,
                              !.inv[i].own = Append(@, o),
                              !.clients[conc.inv[i].client].response = o]
    /\ UNCHANGED <<weatherVars, server, req, sum, session, poll, mcp>>

\* the event loop resumes invocation i: it takes the response off its
\* client, leaves the async with block and runs to its next await or its end
ConcResume(i) ==
    /\ conc.pc = "running"
    /\ conc.inv[i].delivered
    /\ conc.inv[i].pc \in {"alerts", "points", "forecast"}
    /\ LET me == conc.inv[i]
           o == conc.clients[me.client].response
           data == make_nws_request(me.url, o)
           closed == [conc EXCEPT !.clients[me.client].state = "closed"]
       IN  CASE me.pc = "alerts" ->
                  conc' = ConcFinish(conc, i, get_alerts_result(data))
             [] me.pc = "points" ->
                  LET s == points_step(data) IN
                  IF s.ends THEN conc' = ConcFinish(conc, i, s.r)
                  ELSE conc' = ConcRequest([closed EXCEPT !.inv[i].forecast_url = s.url],
                                           i, "forecast", s.url)
             [] me.pc = "forecast" ->
                  conc' = ConcFinish(conc, i, get_forecast_result(data))
    /\ UNCHANGED <<weatherVars, server, req, sum, session, poll, mcp>>

NextConc ==
    \E i \in 1..NInvocations : ConcCall(i) \/ ConcDeliver(i) \/ ConcResume(i)

SpecConc == InitConc /\ [][NextConc]_vars

(***************************************************************************)
(* The interactive session loops: run_interactive_session of               *)
(* travel_policy_agent.py, main of mcp_weather_client.py and               *)
(* run_interactive_session of agent_with_mcp.py.  A line is the sequence   *)
(* of its characters.                                                      *)
(***************************************************************************)
Whitespace == {" ", "\t"}

\* str.lstrip() and str.rstrip()
RECURSIVE lstrip(_)
lstrip(line) ==
    IF line # <<>> /\ Head(line) \in Whitespace THEN lstrip(Tail(line)) ELSE line

RECURSIVE rstrip(_)
rstrip(line) ==
    IF line # <<>> /\ line[Len(line)] \in Whitespace
    THEN rstrip(SubSeq(line, 1, Len(line) - 1)) ELSE line

\* str.strip()
strip(line) == rstrip(lstrip(line))

UpperCase == <<"A", "B", "C", "D", "E", "F", "G", "H", "I", "J", "K", "L", "M",
               "N", "O", "P", "Q", "R", "S", "T", "U", "V", "W", "X", "Y", "Z">>

LowerCase == <<"a", "b", "c", "d", "e", "f", "g", "h", "i", "j", "k", "l", "m",
               "n", "o", "p", "q", "r", "s", "t", "u", "v", "w", "x", "y", "z">>

\* the comparison made on the line as typed
lower_unfolded(line) == line

\* str.lower()
lower(line) ==
    [i \in 1..Len(line) |->
        IF \E j \in 1..Len(UpperCase) : UpperCase[j] = line[i]
        THEN LowerCase[CHOOSE j \in 1..Len(UpperCase) : UpperCase[j] = line[i]]
        ELSE line[i]]

SessionLoops == {"travel_policy_agent", "mcp_weather_client", "agent_with_mcp"}

\* the words each loop compares the folded line with
exit_words(loop) ==
    CASE loop = "travel_policy_agent" -> {<<"e", "x", "i", "t">>}
      [] loop = "mcp_weather_client" ->
           {<<"e", "x", "i", "t">>, <<"q", "u", "i", "t">>, <<"b", "y", "e">>}
      [] loop = "agent_with_mcp" -> {<<"e", "x", "i", "t">>, <<"q", "u", "i", "t">>}

\* whether the loop body is inside a try with "except KeyboardInterrupt"
catches_interrupt(loop) == loop \in {"mcp_weather_client", "agent_with_mcp"}

\* the lines a user types
Lines ==
    {<<>>, <<" ", "\t">>, <<"e", "x", "i", "t">>, <<" ", "E", "x", "I", "T", " ">>,
     <<"Q", "u", "i", "t">>, <<"b", "y", "e">>, <<" ", "h", "i">>}

InitSession ==
    /\ WeatherIdle
    /\ server = Off
    /\ conc = Off
    /\ req = Off
    /\ sum = Off
    /\ \E loop \in SessionLoops, input \in SeqsUpTo(Lines, MaxLines) :
         session = [pc |-> "prompt", loop |-> loop, input |-> input, read |-> 0,
                    sent |-> <<>>, done |-> <<>>, printed |-> <<>>]
    /\ poll = Off
    /\ mcp = Off

\* input(...).strip() and the two tests on the line: the exit words, the
\* empty line; any other line goes to the agent
SessionRead ==
    /\ session.pc = "prompt"
    /\ session.read < Len(session.input)
    /\ LET user_input == strip(session.input[session.read + 1])
           next == [session EXCEPT !.read = @ + 1]
       IN  session' =
             IF lower(user_input) \in exit_words(session.loop)
             THEN [next EXCEPT !.pc = "ended"]
             ELSE IF user_input = <<>> THEN next
             ELSE [next EXCEPT !.pc = "processing",
                               !.sent = Append(@, [line |-> next.read,
                                                   text |-> user_input])]
    /\ UNCHANGED <<weatherVars, server, conc, req, sum, poll, mcp>>

\* the agent answers: the answer is printed, the loop goes round
SessionAnswer ==
    /\ session.pc = "processing"
    /\ session' = [session EXCEPT !.pc = "prompt",
                                  !.done = Append(@, "answered"),
                                  !.printed = Append(@, [line |-> session.read,
                                                         what |-> "answer"])]
    /\ UNCHANGED <<weatherVars, server, conc, req, sum, poll, mcp>>

\* processing raises an Exception: except Exception prints it, the loop
\* goes round
SessionError ==
    /\ session.pc = "processing"
    /\ session' = [session EXCEPT !.pc = "prompt",
                                  !.done = Append(@, "Exception"),
                                  !.printed = Append(@, [line |-> session.read,
                                                         what |-> "error"])]
    /\ UNCHANGED <<weatherVars, server, conc, req, sum, poll, mcp>>

\* the user interrupts the processing: except KeyboardInterrupt, where there
\* is one, ends the loop; elsewhere the interrupt leaves the function
SessionInterrupt ==
    /\ session.pc = "processing"
    /\ session' = [session EXCEPT
                      !.pc = IF catches_interrupt(session.loop) THEN "ended"
                             ELSE "raised",
                      !.done = Append(@, "KeyboardInterrupt")]
    /\ UNCHANGED <<weatherVars, server, conc, req, sum, poll, mcp>>

NextSession == SessionRead \/ SessionAnswer \/ SessionError \/ SessionInterrupt

SpecSession == InitSession /\ [][NextSession]_vars

(***************************************************************************)
(* The polling conversation loop of challenge-05/agent.py.  The thread is  *)
(* the sequence of its messages in the order they were created; the agent  *)
(* service runs the agent on it and adds the assistant's messages.         *)
(***************************************************************************)
PollingStatuses == {"queued", "in_progress"}

\* the statuses a run is reported in
RunStatuses ==
    PollingStatuses
    \cup {"completed", "failed", "cancelled", "expired", "requires_action"}

\* messages.list is called with the thread only: the order of the listing is
\* the service's (newest first unless the caller asks otherwise)
ListOrders == {"desc", "asc"}

\* the assistant messages one completed run adds to the thread
RepliesPerRun == {1, 2}

RECURSIVE reversed(_)
reversed(seq) ==
    IF seq = <<>> THEN <<>> ELSE Append(reversed(Tail(seq)), Head(seq))

\* list(agents_client.messages.list(thread_id=thread.id))
messages_list(thread, order) == IF order = "asc" THEN thread ELSE reversed(thread)

\* for msg in reversed(messages): if msg.role == "assistant": ... break
\* the message printed, if there is one
first_assistant(messages) ==
    LET walked == reversed(messages)
        found == {i \in 1..Len(walked) : walked[i].role = "assistant"}
    IN  IF found = {} THEN <<>>
        ELSE <<walked[CHOOSE i \in found : \A j \in found : i <= j]>>

RECURSIVE AssistantMessages(_, _, _)
AssistantMessages(query, from, n) ==
    IF n = 0 THEN <<>>
    ELSE <<[role |-> "assistant", query |-> query, id |-> from]>>
         \o AssistantMessages(query, from + 1, n - 1)

InitPoll ==
    /\ WeatherIdle
    /\ server = Off
    /\ conc = Off
    /\ req = Off
    /\ sum = Off
    /\ session = Off
    /\ poll = [pc |-> "prompt", thread |-> <<>>, queries |-> 0, runs |-> 0,
               status |-> "none", polls |-> 0, printed |-> <<>>]
    /\ mcp = Off

\* the loop from the test of run.status on, the run being in status: sleep,
\* or print the error line, or list the messages and print the reply
after_status(p, status, order) ==
    IF status \in PollingStatuses
    THEN [p EXCEPT !.pc = "sleeping", !.status = status]
    ELSE IF status # "completed"
    THEN [p EXCEPT !.pc = "prompt", !.status = status,
                   !.printed = Append(@, [query |-> p.queries, what |-> "error",
                                          status |-> status, id |-> 0,
                                          at |-> Len(p.thread)])]
    ELSE LET msg == first_assistant(messages_list(p.thread, order)) IN
         [p EXCEPT !.pc = "prompt", !.status = status,
                   !.printed = IF msg = <<>> THEN @
                               ELSE Append(@, [query |-> p.queries, what |-> "reply",
                                               status |-> status, id |-> msg[1].id,
                                               at |-> Len(p.thread)])]

\* what the service has made of the run when it reports status: a completed
\* run has added its replies to the thread
run_reported(p, status, replies) ==
    IF status = "completed"
    THEN [p EXCEPT !.thread = @ \o AssistantMessages(p.queries, Len(@) + 1, replies)]
    ELSE p

\* a query is typed: messages.create, runs.create and the first test of
\* run.status
PollSubmit ==
    /\ poll.pc = "prompt"
    /\ poll.queries < MaxQueries
    /\ \E status \in RunStatuses, replies \in RepliesPerRun, order \in ListOrders :
         LET sent == [poll EXCEPT
                        !.queries = @ + 1, !.runs = @ + 1, !.polls = 0,
                        !.thread = Append(@, [role |-> "user", query |-> poll.queries + 1,
                                              id |-> Len(@) + 1])]
         IN  poll' = after_status(run_reported(sent, status, replies), status, order)
    /\ UNCHANGED <<weatherVars, server, conc, req, sum, session, mcp>>

\* await asyncio.sleep(1), runs.get and the test of run.status
PollAgain ==
    /\ poll.pc = "sleeping"
    /\ \E status \in RunStatuses, replies \in RepliesPerRun, order \in ListOrders :
         /\ status \in PollingStatuses => poll.polls < MaxPolls
         /\ poll' = after_status(run_reported([poll EXCEPT !.polls = @ + 1],
                                              status, replies),
                                 status, order)
    /\ UNCHANGED <<weatherVars, server, conc, req, sum, session, mcp>>

\* exit is typed
PollExit ==
    /\ poll.pc = "prompt"
    /\ poll' = [poll EXCEPT !.pc = "ended"]
    /\ UNCHANGED <<weatherVars, server, conc, req, sum, session, mcp>>

NextPoll == PollSubmit \/ PollAgain \/ PollExit

SpecPoll == InitPoll /\ [][NextPoll]_vars

(***************************************************************************)
(* MCPIntegratedAgent (Challenge-06/python/agent_with_mcp.py): main,       *)
(* run_interactive_session, the three creation methods and cleanup         *)
(***************************************************************************)
Settings ==
    {"AZURE_OPENAI_ENDPOINT", "AZURE_OPENAI_API_KEY", "AZURE_OPENAI_DEPLOYMENT_NAME"}

\* the agents run_interactive_session creates, in the order of its
\* statements; the third one only if sys.argv carries a server path
CreationOrder(server_path) ==
    IF server_path THEN <<"JokeAgent", "TimeAgent", "WeatherAgent">>
    ELSE <<"JokeAgent", "TimeAgent">>

\* callbacks run first in, first out
next_to_close_fifo(stack) == 1

\* AsyncExitStack.aclose(): the callbacks run last in, first out
next_to_close(stack) == Len(stack)

InitMCP ==
    /\ WeatherIdle
    /\ server = Off
    /\ conc = Off
    /\ req = Off
    /\ sum = Off
    /\ session = Off
    /\ poll = Off
    /\ \E env \in SUBSET Settings, server_path \in BOOLEAN :
         mcp = [pc |-> "create", env |-> env, server_path |-> server_path,
                agent |-> "None", exit_stack |-> <<>>, entered |-> <<>>,
                closed |-> <<>>, queries |-> <<>>, raised |-> "", cleanups |-> 0,
                exit |-> "none"]

\* the agent the next creation statement names
Creating == CreationOrder(mcp.server_path)[Len(mcp.entered) + 1]

\* a creation method up to its await: the three settings are tested, the
\* chat client and the ChatAgent are built, the context is being entered
MCPCreate ==
    /\ mcp.pc = "create"
    /\ Len(mcp.entered) < Len(CreationOrder(mcp.server_path))
    /\ mcp' = IF Settings \subseteq mcp.env
              THEN [mcp EXCEPT !.pc = "entering"]
              ELSE [mcp EXCEPT !.pc = "except", !.raised = "ValueError"]
    /\ UNCHANGED <<weatherVars, server, conc, req, sum, session, poll>>

\* enter_async_context returns: the context is on the exit stack and
\* self.agent is the new agent
MCPEntered ==
    /\ mcp.pc = "entering"
    /\ mcp' = [mcp EXCEPT !.pc = "create",
                          !.agent = Creating,
                          !.exit_stack = Append(@, Creating),
                          !.entered = Append(@, Creating)]
    /\ UNCHANGED <<weatherVars, server, conc, req, sum, session, poll>>

\* __aenter__ raises: nothing is put on the exit stack, the exception
\* leaves run_interactive_session
MCPEnterFails ==
    /\ mcp.pc = "entering"
    /\ mcp' = [mcp EXCEPT !.pc = "except", !.raised = "Exception"]
    /\ UNCHANGED <<weatherVars, server, conc, req, sum, session, poll>>

\* the creation statements are done: the banner, then the prompt
MCPStartLoop ==
    /\ mcp.pc = "create"
    /\ Len(mcp.entered) = Len(CreationOrder(mcp.server_path))
    /\ mcp' = [mcp EXCEPT !.pc = "prompt"]
    /\ UNCHANGED <<weatherVars, server, conc, req, sum, session, poll>>

\* a query is typed: self.agent.run_stream(query); an Exception it raises
\* is printed and the loop goes round
MCPQuery ==
    /\ mcp.pc = "prompt"
    /\ Len(mcp.queries) < MaxSessionQueries
    /\ \E outcome \in {"answered", "Exception"} :
         mcp' = [mcp EXCEPT !.queries = Append(@, [agent |-> mcp.agent,
                                                   outcome |-> outcome])]
    /\ UNCHANGED <<weatherVars, server, conc, req, sum, session, poll>>

\* exit or quit is typed, or KeyboardInterrupt is caught: break, and
\* run_interactive_session returns
MCPQuit ==
    /\ mcp.pc = "prompt"
    /\ mcp' = [mcp EXCEPT !.pc = "finally", !.exit = "returned"]
    /\ UNCHANGED <<weatherVars, server, conc, req, sum, session, poll>>

\* the task is cancelled at the prompt: CancelledError is no Exception, so
\* it passes the except clauses of the loop and of main
MCPCancelled ==
    /\ mcp.pc = "prompt"
    /\ mcp' = [mcp EXCEPT !.pc = "finally", !.raised = "CancelledError",
                          !.exit = "CancelledError"]
    /\ UNCHANGED <<weatherVars, server, conc, req, sum, session, poll>>

\* except Exception of main: the error is printed, sys.exit(1) raises
\* SystemExit
MCPExcept ==
    /\ mcp.pc = "except"
    /\ mcp' = [mcp EXCEPT !.pc = "finally", !.exit = "SystemExit"]
    /\ UNCHANGED <<weatherVars, server, conc, req, sum, session, poll>>

\* finally: await agent.cleanup(), that is exit_stack.aclose()
MCPCleanup ==
    /\ mcp.pc = "finally"
    /\ mcp' = [mcp EXCEPT !.pc = "closing", !.cleanups = @ + 1]
    /\ UNCHANGED <<weatherVars, server, conc, req, sum, session, poll>>

\* aclose leaves the next context
MCPClose ==
    /\ mcp.pc = "closing"
    /\ mcp.exit_stack # <<>>
    /\ LET i == next_to_close(mcp.exit_stack) IN
       mcp' = [mcp EXCEPT
                 !.closed = Append(@, mcp.exit_stack[i]),
                 !.exit_stack = SubSeq(@, 1, i - 1) \o SubSeq(@, i + 1, Len(@))]
    /\ UNCHANGED <<weatherVars, server, conc, req, sum, session, poll>>

\* aclose returns; main ends the way mcp.exit says
MCPExit ==
    /\ mcp.pc = "closing"
    /\ mcp.exit_stack = <<>>
    /\ mcp' = [mcp EXCEPT !.pc = "exited"]
    /\ UNCHANGED <<weatherVars, server, conc, req, sum, session, poll>>

NextMCP ==
    \/ MCPCreate
    \/ MCPEntered
    \/ MCPEnterFails
    \/ MCPStartLoop
    \/ MCPQuery
    \/ MCPQuit
    \/ MCPCancelled
    \/ MCPExcept
    \/ MCPCleanup
    \/ MCPClose
    \/ MCPExit

SpecMCP == InitMCP /\ [][NextMCP]_vars

(***************************************************************************)
(* What an ended invocation shows: its upstream outcomes and its text      *)
(***************************************************************************)
Ended == pc \in {"returned", "raised"}

ForecastEnded == tool = "get_forecast" /\ Ended

AlertsEnded == tool = "get_alerts" /\ Ended

Min(a, b) == IF a < b THEN a ELSE b

Count(text, piece) == Cardinality({i \in 1..Len(text) : text[i] = piece})

IsObjectWith(v, key) == v.kind = "obj" /\ key \in DOMAIN v.fields

\* body is an object whose properties is an object with the key
HasProperty(body, key) ==
    /\ IsObjectWith(body, "properties")
    /\ IsObjectWith(body.fields["properties"], key)

\* the text of one forecast period as section 4.1 describes it
PeriodBlock(p) ==
    <<"\n", p.fields["name"].s,
      ":\nTemperature: ", ToString(p.fields["temperature"].n), "°",
      p.fields["temperatureUnit"].s,
      "\nWind: ", p.fields["windSpeed"].s, " ", p.fields["windDirection"].s,
      "\nForecast: ", p.fields["detailedForecast"].s, "\n">>

PeriodBlockLen == 13

\* k period blocks with a separator between neighbours
IsForecastText(text) ==
    \/ text = <<>>
    \/ /\ Len(text) % (PeriodBlockLen + 1) = PeriodBlockLen
       /\ \A i \in 1..Len(text) :
            /\ i % (PeriodBlockLen + 1) = 0 => text[i] = Separator
            /\ i % (PeriodBlockLen + 1) = 3 => text[i] = ":\nTemperature: "

AlertBlockLen == 11

\* k alert blocks, k >= 1, with a separator between neighbours
IsAlertsText(text) ==
    /\ Len(text) % (AlertBlockLen + 1) = AlertBlockLen
    /\ \A i \in 1..Len(text) :
         /\ i % (AlertBlockLen + 1) = 0 => text[i] = Separator
         /\ i % (AlertBlockLen + 1) = 1 => text[i] = "\nEvent: "

\* the placeholder section 3 and section 4.2 define for a missing field
Placeholder(key) ==
    CASE key \in {"event", "areaDesc", "severity"} -> "Unknown"
      [] key = "description" -> "No description available"
      [] key = "instruction" -> "No specific instructions provided"

FieldOrder == <<"event", "areaDesc", "severity", "description", "instruction">>

FieldLabel == <<"\nEvent: ", "\nArea: ", "\nSeverity: ", "\nDescription: ",
                "\nInstructions: ">>

\* what the block of feature f shows for its i-th field
FieldShown(f, i) ==
    LET props == f.fields["properties"].fields IN
    IF FieldOrder[i] \notin DOMAIN props THEN Placeholder(FieldOrder[i])
    ELSE IF props[FieldOrder[i]].kind = "str" THEN props[FieldOrder[i]].s
    ELSE "None"

AlertBlock(f) ==
    <<FieldLabel[1], FieldShown(f, 1), FieldLabel[2], FieldShown(f, 2),
      FieldLabel[3], FieldShown(f, 3), FieldLabel[4], FieldShown(f, 4),
      FieldLabel[5], FieldShown(f, 5), "\n">>

(***************************************************************************)
(* Claims                                                                  *)
(***************************************************************************)

\* C1: get_forecast never raises: whatever upstream does at either phase, the
\* invocation ends by returning the phase-1 failure message, the
\* missing-endpoint message, the phase-2 failure message or forecast text.
C1_ForecastNeverRaises ==
    ForecastEnded =>
        /\ pc = "returned"
        /\ \/ result \in {<<MsgPointsUnavailable>>, <<MsgNoForecastUrl>>,
                          <<MsgForecastUnavailable>>}
           \/ IsForecastText(result)

\* C2: get_alerts never raises: whatever upstream does, the invocation ends
\* by returning the fetch-failure message, the no-active-alerts message or
\* alert text.
C2_AlertsNeverRaises ==
    AlertsEnded =>
        /\ pc = "returned"
        /\ \/ result \in {<<MsgAlertsUnavailable>>, <<MsgNoAlerts>>}
           \/ IsAlertsText(result)

\* C3: when the points request fails (network error, timeout, error status,
\* unparseable body) get_forecast returns exactly "Unable to fetch forecast
\* data for this location.", never the phase-2 message, and issues no
\* phase-2 request.
C3_Phase1Failure ==
    (tool = "get_forecast" /\ Len(outcomes) >= 1 /\ outcomes[1].how # "ok") =>
        /\ pc = "returned"
        /\ Render(result) = "Unable to fetch forecast data for this location."
        /\ Render(result) # "Unable to fetch detailed forecast."
        /\ Len(requests) = 1
        /\ Len(outcomes) = 1

C3_Witness ==
    /\ ForecastEnded
    /\ Len(outcomes) = 1
    /\ outcomes[1].how = "timeout"
    /\ result = <<MsgPointsUnavailable>>

\* C4: when the points request succeeds with a body that lacks the forecast
\* endpoint reference, the empty object {} included, get_forecast returns the
\* missing-endpoint message and not the phase-1 fetch-failure message.
C4_MissingEndpoint ==
    (/\ tool = "get_forecast"
     /\ Len(outcomes) >= 1
     /\ outcomes[1].how = "ok"
     /\ outcomes[1].body.kind = "obj"
     /\ ~HasProperty(outcomes[1].body, "forecast")) =>
        /\ pc = "returned"
        /\ Render(result) = "Unable to determine forecast URL for this location."

\* C5: when the request to the resolved forecast endpoint fails, get_forecast
\* returns exactly "Unable to fetch detailed forecast.", which is neither of
\* the phase-1 messages.
C5_Phase2Failure ==
    (tool = "get_forecast" /\ Len(outcomes) = 2 /\ outcomes[2].how # "ok") =>
        /\ pc = "returned"
        /\ Render(result) = "Unable to fetch detailed forecast."
        /\ Render(result) \notin
              {"Unable to fetch forecast data for this location.",
               "Unable to determine forecast URL for this location."}
        /\ HasProperty(outcomes[1].body, "forecast")

C5_Witness ==
    /\ ForecastEnded
    /\ Len(outcomes) = 2
    /\ outcomes[1].how = "ok"
    /\ outcomes[2].how = "http_error"
    /\ result = <<MsgForecastUnavailable>>

\* a complete forecast period of section 3: an object with the six fields
WellFormedPeriod(p) ==
    /\ p.kind = "obj"
    /\ DOMAIN p.fields = {"name", "temperature", "temperatureUnit", "windSpeed",
                          "windDirection", "detailedForecast"}
    /\ p.fields["temperature"].kind = "num"
    /\ \A k \in DOMAIN p.fields \ {"temperature"} : p.fields[k].kind = "str"

\* an alert feature of section 3: an object whose properties is an object
\* that carries any of the five optional fields, each a string or null
WellFormedAlert(f) ==
    /\ IsObjectWith(f, "properties")
    /\ f.fields["properties"].kind = "obj"
    /\ DOMAIN f.fields["properties"].fields \subseteq
          {"event", "areaDesc", "severity", "description", "instruction"}
    /\ \A k \in DOMAIN f.fields["properties"].fields :
          f.fields["properties"].fields[k].kind \in {"str", "null"}

\* the periods of a forecast body whose periods is a list of complete periods
ForecastPeriodsOf(body) == body.fields["properties"].fields["periods"].items

WellFormedForecast(body) ==
    /\ HasProperty(body, "periods")
    /\ body.fields["properties"].fields["periods"].kind = "list"
    /\ \A i \in 1..Len(ForecastPeriodsOf(body)) :
          WellFormedPeriod(ForecastPeriodsOf(body)[i])

\* the i-th block of a text whose blocks have len pieces
BlockAt(text, i, len) == SubSeq(text, (len + 1) * (i - 1) + 1, (len + 1) * i - 1)

\* C6: for a successful forecast response with n periods the output is the
\* blocks of the first min(n, 5) periods in their order, joined by
\* min(n, 5) - 1 separators "\n---\n" (none when there is no block); no later
\* period appears.
C6_FirstFivePeriods ==
    (/\ tool = "get_forecast"
     /\ Len(outcomes) = 2
     /\ outcomes[2].how = "ok"
     /\ WellFormedForecast(outcomes[2].body)) =>
        LET periods == ForecastPeriodsOf(outcomes[2].body)
            k == Min(Len(periods), 5)
        IN  /\ pc = "returned"
            /\ Len(result) = IF k = 0 THEN 0 ELSE (PeriodBlockLen + 1) * k - 1
            /\ \A i \in 1..k : BlockAt(result, i, PeriodBlockLen) = PeriodBlock(periods[i])
            /\ \A i \in 1..(k - 1) : result[(PeriodBlockLen + 1) * i] = "\n---\n"
            /\ Count(result, "\n---\n") = IF k = 0 THEN 0 ELSE k - 1
            /\ Count(result, ":\nTemperature: ") = k

C6_Witness ==
    /\ ForecastEnded
    /\ Len(outcomes) = 2
    /\ outcomes[2].how = "ok"
    /\ WellFormedForecast(outcomes[2].body)
    /\ Len(ForecastPeriodsOf(outcomes[2].body)) = 8
    /\ ForecastPeriodsOf(outcomes[2].body)[5] # ForecastPeriodsOf(outcomes[2].body)[6]
    /\ pc = "returned"
    /\ Count(result, Separator) = 4

\* C6, the scenario of section 8: 3 periods give 3 blocks and 2 separators
C6_WitnessThree ==
    /\ ForecastEnded
    /\ Len(outcomes) = 2
    /\ outcomes[2].how = "ok"
    /\ WellFormedForecast(outcomes[2].body)
    /\ Len(ForecastPeriodsOf(outcomes[2].body)) = 3
    /\ Count(result, ":\nTemperature: ") = 3
    /\ Count(result, Separator) = 2

\* a well-formed alerts body: an object whose features is a list of features
\* that carry a properties object
AlertsOf(body) == body.fields["features"].items

WellFormedAlerts(body) ==
    /\ IsObjectWith(body, "features")
    /\ body.fields["features"].kind = "list"
    /\ \A i \in 1..Len(AlertsOf(body)) : WellFormedAlert(AlertsOf(body)[i])

AlertsFetchFailed == tool = "get_alerts" /\ Len(outcomes) = 1 /\ outcomes[1].how # "ok"

AlertsFetched == tool = "get_alerts" /\ Len(outcomes) = 1 /\ outcomes[1].how = "ok"

\* C7: a well-formed alerts response with an empty alert list gives exactly
\* "No active alerts for this state." and never the fetch-failure string, and
\* a fetch failure never gives the no-active-alerts string.
C7_EmptyAlertList ==
    /\ (AlertsFetched /\ WellFormedAlerts(outcomes[1].body)
            /\ AlertsOf(outcomes[1].body) = <<>>) =>
          /\ pc = "returned"
          /\ Render(result) = "No active alerts for this state."
          /\ Render(result) # "Unable to fetch alerts or no alerts found."
    /\ AlertsFetchFailed =>
          /\ pc = "returned"
          /\ Render(result) # "No active alerts for this state."

C7_Witness ==
    /\ AlertsEnded
    /\ AlertsFetched
    /\ WellFormedAlerts(outcomes[1].body)
    /\ "type" \in DOMAIN outcomes[1].body.fields
    /\ AlertsOf(outcomes[1].body) = <<>>
    /\ result = <<MsgNoAlerts>>

\* C8: when the alerts request fails or the body lacks "features",
\* get_alerts returns exactly "Unable to fetch alerts or no alerts found." and
\* formats no alert; when "features" is a non-empty list every feature of it
\* is formatted, in order and without truncation, the blocks joined by
\* "\n---\n".
C8_AlertsListing ==
    /\ (\/ AlertsFetchFailed
        \/ AlertsFetched /\ outcomes[1].body = None
        \/ AlertsFetched /\ outcomes[1].body.kind = "obj"
              /\ "features" \notin DOMAIN outcomes[1].body.fields) =>
          /\ pc = "returned"
          /\ Render(result) = "Unable to fetch alerts or no alerts found."
          /\ Count(result, "\nEvent: ") = 0
    /\ (AlertsFetched /\ WellFormedAlerts(outcomes[1].body)
            /\ AlertsOf(outcomes[1].body) # <<>>) =>
          LET features == AlertsOf(outcomes[1].body)
              n == Len(features)
          IN  /\ pc = "returned"
              /\ Len(result) = (AlertBlockLen + 1) * n - 1
              /\ \A i \in 1..n : BlockAt(result, i, AlertBlockLen) = AlertBlock(features[i])
              /\ \A i \in 1..(n - 1) : result[(AlertBlockLen + 1) * i] = "\n---\n"
              /\ Count(result, "\n---\n") = n - 1

C8_Witness ==
    /\ AlertsEnded
    /\ AlertsFetched
    /\ WellFormedAlerts(outcomes[1].body)
    /\ Len(AlertsOf(outcomes[1].body)) = 6
    /\ AlertsOf(outcomes[1].body)[5] # AlertsOf(outcomes[1].body)[6]
    /\ Count(result, "\nEvent: ") = 6

\* C8, the failure half: a body without "features" gives the failure message
C8_WitnessNoFeatures ==
    /\ AlertsEnded
    /\ AlertsFetched
    /\ outcomes[1].body.kind = "obj"
    /\ DOMAIN outcomes[1].body.fields = {"title"}
    /\ result = <<MsgAlertsUnavailable>>

MissingFields(f) ==
    {i \in 1..5 : FieldOrder[i] \notin DOMAIN f.fields["properties"].fields}

\* C9: for an alert feature missing any subset of event, areaDesc, severity,
\* description, instruction, format_alert returns without raising a block
\* that shows the placeholder of each missing field ("Unknown", "Unknown",
\* "Unknown", "No description available", "No specific instructions
\* provided") and the own value of each present field.
C9_AlertPlaceholders ==
    (AlertsFetched /\ WellFormedAlerts(outcomes[1].body)
        /\ Len(AlertsOf(outcomes[1].body)) = 1) =>
        LET f == AlertsOf(outcomes[1].body)[1]
            props == f.fields["properties"].fields
        IN  /\ pc = "returned"
            /\ Len(result) = AlertBlockLen
            /\ \A i \in 1..5 :
                 /\ result[2 * i - 1] = FieldLabel[i]
                 /\ i \in MissingFields(f) => result[2 * i] = Placeholder(FieldOrder[i])
                 /\ (i \notin MissingFields(f) /\ props[FieldOrder[i]].kind = "str") =>
                        result[2 * i] = props[FieldOrder[i]].s
                 /\ (i \notin MissingFields(f) /\ props[FieldOrder[i]].kind = "null") =>
                        result[2 * i] = "None"

C9_Witness ==
    /\ AlertsEnded
    /\ AlertsFetched
    /\ WellFormedAlerts(outcomes[1].body)
    /\ Len(AlertsOf(outcomes[1].body)) = 1
    /\ MissingFields(AlertsOf(outcomes[1].body)[1]) = {2, 5}
    /\ result[4] = "Unknown"
    /\ result[10] = "No specific instructions provided"
    /\ result[2] = "Flood Warning"

\* the endpoint reference of a points body that has one
EndpointOf(body) == body.fields["properties"].fields["forecast"]

\* the GETs of an invocation come one after the other, each issued once: one
\* for get_alerts, at most two for get_forecast, the second one to the
\* endpoint reference the first one yielded, and a failed GET is the last one
\* and ends the invocation with a message
SequentialNoRetry ==
    tool # "none" =>
        /\ tool = "get_alerts" => Len(requests) = 1
        /\ tool = "get_forecast" => Len(requests) \in {1, 2}
        /\ Len(requests) = Len(outcomes) + (IF Ended THEN 0 ELSE 1)
        /\ Len(requests) = 2 =>
              /\ outcomes[1].how = "ok"
              /\ HasProperty(outcomes[1].body, "forecast")
              /\ requests[2].url = EndpointOf(outcomes[1].body)
        /\ \A i \in 1..Len(outcomes) :
              outcomes[i].how # "ok" =>
                 /\ i = Len(requests)
                 /\ pc = "returned"
                 /\ Render(result) \in
                       {"Unable to fetch alerts or no alerts found.",
                        "Unable to fetch forecast data for this location.",
                        "Unable to fetch detailed forecast."}

NoUrlTwice ==
    \A i, j \in 1..Len(requests) : i # j => requests[i].url # requests[j].url

\* C10 as stated: the calls of an invocation are sequential and not retried,
\* one for get_alerts, at most two for get_forecast, the second only after
\* the first yielded an endpoint reference, the first failure ends the
\* invocation with its text, and no URL is requested more than once.
C10_SequentialNoUrlTwice == SequentialNoRetry /\ NoUrlTwice

\* C10 as amended: the same, but a URL is requested twice exactly when the
\* endpoint reference upstream gave is the points URL itself; a GET is never
\* repeated on its own.
C10_SequentialNoRetry ==
    /\ SequentialNoRetry
    /\ ~NoUrlTwice =>
          /\ tool = "get_forecast"
          /\ Len(requests) = 2
          /\ EndpointOf(outcomes[1].body) = requests[1].url

C10_Witness ==
    /\ ForecastEnded
    /\ Len(requests) = 2
    /\ NoUrlTwice
    /\ outcomes[2].how = "timeout"
    /\ result = <<MsgForecastUnavailable>>

\* what the tool table says of the tool name, as name(p: type, ...) -> type
Signature(table, name) ==
    [params |-> table[name].params, returns |-> table[name].returns]

ToolTableFixed(alerts_param) ==
    /\ server.pc = "serving"
    /\ DOMAIN server.registry = {"get_forecast", "get_alerts"}
    /\ Signature(server.registry, "get_forecast") =
          [params |-> <<[name |-> "latitude", type |-> "float"],
                        [name |-> "longitude", type |-> "float"]>>,
           returns |-> "str"]
    /\ Signature(server.registry, "get_alerts") =
          [params |-> <<[name |-> alerts_param, type |-> "str"]>>, returns |-> "str"]
    /\ server.advertised # <<>> =>
          /\ {server.advertised[i] : i \in 1..Len(server.advertised)}
                = DOMAIN server.registry
          /\ Len(server.advertised) = Cardinality(DOMAIN server.registry)

\* C13 as stated: the tool table holds exactly get_forecast(latitude: float,
\* longitude: float) -> text and get_alerts(region_code: string) -> text, no
\* invocation changes it, and GET / names exactly the registered tools.
C13_ToolTableRegionCode == ToolTableFixed("region_code")

\* C13 as amended: the same, the parameter of get_alerts being declared
\* under the name state.
C13_ToolTable == ToolTableFixed("state")

C13_Witness ==
    /\ server.advertised = <<"get_forecast", "get_alerts">>
    /\ AlertsEnded
    /\ pc = "returned"

\* the forecast body of an invocation whose phase 2 succeeded
ForecastFetched ==
    tool = "get_forecast" /\ Len(outcomes) = 2 /\ outcomes[2].how = "ok"

\* C16: when phase 2 of get_forecast succeeds with a body whose periods list
\* is present and empty, get_forecast returns the empty string, no block, no
\* separator and no status message, whereas get_alerts returns "No active
\* alerts for this state." for an empty list of features.
C16_EmptyPeriodsEmptyText ==
    /\ (ForecastFetched /\ HasProperty(outcomes[2].body, "periods")
            /\ outcomes[2].body.fields["properties"].fields["periods"] = JList(<<>>)) =>
          /\ pc = "returned"
          /\ Render(result) = ""
          /\ result = <<>>
    /\ (AlertsFetched /\ IsObjectWith(outcomes[1].body, "features")
            /\ outcomes[1].body.fields["features"] = JList(<<>>)) =>
          /\ pc = "returned"
          /\ Render(result) = "No active alerts for this state."

C16_Witness ==
    /\ ForecastEnded
    /\ ForecastFetched
    /\ outcomes[2].body =
          JObj([k \in {"properties"} |-> JObj([j \in {"periods"} |-> JList(<<>>)])])
    /\ pc = "returned"
    /\ result = <<>>

\* the fields of the k-th feature of an alerts body
PropsOf(body, k) == AlertsOf(body)[k].fields["properties"].fields

\* in every block of the text of a well-formed alerts body, a null field
\* reads "None", and the placeholder stands in a field's place exactly when
\* shows(props, key) says so
PlaceholderShownWhen(shows(_, _)) ==
    (AlertsFetched /\ WellFormedAlerts(outcomes[1].body)
        /\ AlertsOf(outcomes[1].body) # <<>>) =>
        /\ pc = "returned"
        /\ Len(result) = (AlertBlockLen + 1) * Len(AlertsOf(outcomes[1].body)) - 1
        /\ \A k \in 1..Len(AlertsOf(outcomes[1].body)) : \A i \in 1..5 :
             LET props == PropsOf(outcomes[1].body, k)
                 key == FieldOrder[i]
                 shown == BlockAt(result, k, AlertBlockLen)[2 * i]
             IN  /\ (key \in DOMAIN props /\ props[key].kind = "null") =>
                        (shown = "None" /\ shown # Placeholder(key))
                 /\ (shown = Placeholder(key)) <=> shows(props, key)

KeyAbsent(props, key) == key \notin DOMAIN props

KeyAbsentOrOwnValue(props, key) ==
    \/ key \notin DOMAIN props
    \/ props[key] = JStr(Placeholder(key))

\* C17 as stated: format_alert renders a present null field as "None" and
\* not as the placeholder, and the placeholder appears in the output if and
\* only if the key is absent.
C17_PlaceholderIffAbsent == PlaceholderShownWhen(KeyAbsent)

\* C17 as amended: format_alert renders a present null field as "None" and
\* not as the placeholder, and the placeholder text appears in a field's
\* place if and only if the key is absent or the field's own value is that
\* very text.
C17_PlaceholderOnlyForAbsent == PlaceholderShownWhen(KeyAbsentOrOwnValue)

C17_Witness ==
    /\ AlertsEnded
    /\ AlertsFetched
    /\ WellFormedAlerts(outcomes[1].body)
    /\ AlertsOf(outcomes[1].body) = <<UnknownSeverityAlert>>
    /\ result[6] = "Unknown"
    /\ result[4] = "Unknown"
    /\ result[10] = "None"

\* C15: add(a, b) returns the arithmetic sum of its arguments for all
\* integers of a bounded range, negatives and mixed signs included; 0 is a
\* two-sided identity and add(a, -a) = 0.
C15_AddIsSum ==
    sum.pc = "returned" =>
        /\ sum.value = sum.a + sum.b
        /\ sum.value - sum.b = sum.a
        /\ sum.a = 0 => sum.value = sum.b
        /\ sum.b = 0 => sum.value = sum.a
        /\ sum.b = -sum.a => sum.value = 0

C15_Witness ==
    /\ sum.pc = "returned"
    /\ sum.a = 5
    /\ sum.b = -3
    /\ sum.value = 2

RequestEnded == req.pc \in {"returned", "raised"}

\* C12: make_nws_request returns None and propagates nothing for every
\* exception the GET raises (network error, timeout), for every non-success
\* status and for every body that does not parse as JSON; it returns the
\* parsed body only when the request succeeded with a success status; every
\* request carries the User-Agent and Accept: application/geo+json headers
\* and the timeout of 30 seconds.
C12_FailuresBecomeNone ==
    /\ req.pc \in {"awaiting", "closing", "returned", "raised"} =>
          /\ req.sent.url = req.url
          /\ DOMAIN req.sent.headers = {"User-Agent", "Accept"}
          /\ req.sent.headers["User-Agent"] \in {"weather-tool/1.0", "weather-app/1.0"}
          /\ req.sent.headers["Accept"] = "application/geo+json"
          /\ req.sent.timeout = 30
    /\ RequestEnded =>
          /\ req.client = "closed"
          /\ (\/ req.outcome.how \in {"network_error", "timeout", "invalid_url"}
              \/ req.outcome.how = "response" /\ req.outcome.status \notin 200..299
              \/ req.outcome.how = "response"
                   /\ req.outcome.text \in {"", "<html>Bad Gateway</html>",
                                             "{\"features\": ["}) =>
                (req.pc = "returned" /\ req.returns = [exc |-> "", val |-> JNull])
          /\ (req.pc = "returned" /\ req.returns.val # JNull) =>
                /\ req.outcome.how = "response"
                /\ req.outcome.status \in 200..299
                /\ req.outcome.text \in {"{}", "{\"features\": []}", "{\"status\": 404}"}
          /\ (req.outcome.how = "response" /\ req.outcome.status \in 200..299
                 /\ req.outcome.text = "{\"features\": []}") =>
                (req.pc = "returned"
                   /\ req.returns.val = JObj([k \in {"features"} |-> JList(<<>>)]))

C12_Witness ==
    /\ req.pc = "returned"
    /\ req.outcome = [how |-> "response", status |-> 404, text |-> "{\"status\": 404}"]
    /\ req.returns = Ok(None)
    /\ req.client = "closed"

\* C12, the other cases: a timeout, and a success
C12_WitnessTimeout ==
    /\ req.pc = "returned"
    /\ req.outcome.how = "timeout"
    /\ req.returns = Ok(None)

C12_WitnessBody ==
    /\ req.pc = "returned"
    /\ req.outcome.status = 200
    /\ req.returns.val = JObj([k \in {"features"} |-> JList(<<>>)])

\* the invocation run alone, the GETs it issues answered by own in order
run_alone(call, own) ==
    IF call.tool = "get_alerts"
    THEN get_alerts_result(make_nws_request(JStr(AlertsUrl(call.args[1])), own[1]))
    ELSE LET s == points_step(make_nws_request(JStr(PointsUrl(call.args[1], call.args[2])),
                                               own[1]))
         IN  IF s.ends THEN s.r
             ELSE get_forecast_result(make_nws_request(s.url, own[2]))

\* one invocation at a time, run_alone is what the invocation comes to
RunAloneIsSequential ==
    Ended => [exc |-> raised, val |-> result]
                = run_alone([tool |-> tool, args |-> args], outcomes)

ConcEnded(i) == conc.inv[i].pc \in {"returned", "raised"}

\* C11: with several invocations in flight and their awaits interleaved in
\* any order, each invocation's result is the one it comes to when run alone
\* on its own arguments and the responses to its own requests; no client is
\* used by two invocations, and each is closed by the request that opened
\* it.
C11_InvocationsIndependent ==
    /\ \A c \in ClientIds : Cardinality(conc.clients[c].users) <= 1
    /\ \A i \in 1..NInvocations :
         /\ conc.inv[i].pc \in {"alerts", "points", "forecast"} =>
               /\ conc.clients[conc.inv[i].client].state = "open"
               /\ conc.clients[conc.inv[i].client].users = {i}
               /\ conc.inv[i].delivered =>
                     conc.clients[conc.inv[i].client].response
                        = conc.inv[i].own[Len(conc.inv[i].own)]
         /\ ConcEnded(i) =>
               /\ [exc |-> conc.inv[i].raised, val |-> conc.inv[i].result]
                     = run_alone([tool |-> conc.inv[i].tool, args |-> conc.inv[i].args],
                                 conc.inv[i].own)
               /\ \A c \in ClientIds :
                     i \in conc.clients[c].users => conc.clients[c].state = "closed"

\* two forecasts in flight at once, answered in the other order than they
\* were issued in, end differently
C11_Witness ==
    /\ ConcEnded(1)
    /\ ConcEnded(2)
    /\ conc.inv[1].tool = "get_forecast"
    /\ conc.inv[2].tool = "get_forecast"
    /\ conc.inv[1].client = 4
    /\ conc.inv[2].client = 2
    /\ conc.inv[1].result # conc.inv[2].result
    /\ Len(conc.inv[1].result) = PeriodBlockLen

\* the line from its first to its last character that is no whitespace
Trimmed(line) ==
    LET inked == {i \in 1..Len(line) : line[i] \notin {" ", "\t"}} IN
    IF inked = {} THEN <<>>
    ELSE SubSeq(line, CHOOSE i \in inked : \A j \in inked : i <= j,
                      CHOOSE i \in inked : \A j \in inked : j <= i)

\* the line is one of words between whitespace, in whatever case
IsExitLine(line, words) ==
    \E w \in words : \E a, b \in 0..Len(line) :
        /\ a + Len(w) + b = Len(line)
        /\ \A i \in 1..a : line[i] \in {" ", "\t"}
        /\ \A i \in 1..b : line[a + Len(w) + i] \in {" ", "\t"}
        /\ \A i \in 1..Len(w) :
              \/ line[a + i] = w[i]
              \/ \E j \in 1..26 : UpperCase[j] = line[a + i] /\ LowerCase[j] = w[i]

\* the lines of 1..n that are neither empty after trimming nor an exit line:
\* each with its number and its trimmed text
RECURSIVE QueriesAmong(_, _, _)
QueriesAmong(input, n, words) ==
    IF n = 0 THEN <<>>
    ELSE IF Trimmed(input[n]) = <<>> \/ IsExitLine(input[n], words)
         THEN QueriesAmong(input, n - 1, words)
         ELSE Append(QueriesAmong(input, n - 1, words),
                     [line |-> n, text |-> Trimmed(input[n])])

\* the session loop, words(loop) being the exit words of the loop
SessionLoopProperty(words(_)) ==
    session.pc # "off" =>
        LET W == words(session.loop)
            input == session.input
            n == session.read
        IN  /\ \A k \in 1..n : IsExitLine(input[k], W) => (k = n /\ session.pc = "ended")
            /\ session.sent = QueriesAmong(input, n, W)
            /\ \A k \in 1..Len(session.sent) :
                  /\ session.sent[k].text # <<>>
                  /\ ~IsExitLine(session.sent[k].text, W)
            /\ \A k \in 1..Len(session.done) :
                  session.done[k] = "Exception" =>
                     /\ \E j \in 1..Len(session.printed) :
                           session.printed[j] = [line |-> session.sent[k].line,
                                                 what |-> "error"]
                     /\ (k = Len(session.done) /\ n = session.sent[k].line) =>
                           session.pc = "prompt"
            /\ session.pc \in {"ended", "raised"} =>
                  \/ n > 0 /\ IsExitLine(input[n], W)
                  \/ session.done # <<>>
                       /\ session.done[Len(session.done)] = "KeyboardInterrupt"

TheExitWord(loop) == {<<"e", "x", "i", "t">>}

OwnExitWords(loop) ==
    CASE loop = "travel_policy_agent" -> {<<"e", "x", "i", "t">>}
      [] loop = "mcp_weather_client" ->
           {<<"e", "x", "i", "t">>, <<"q", "u", "i", "t">>, <<"b", "y", "e">>}
      [] loop = "agent_with_mcp" -> {<<"e", "x", "i", "t">>, <<"q", "u", "i", "t">>}

\* C18 as stated: in each interactive session loop a line empty after
\* trimming is never sent, a line equal to the exit word "exit" after
\* trimming and case-folding ends the loop unsent with no later line read,
\* every other line is sent exactly once in input order, and an exception
\* raised while processing a query is reported and the loop goes on.
C18_SessionLoopExit == SessionLoopProperty(TheExitWord)

\* C18 as amended: the same, the exit words being those of each loop: exit
\* in travel_policy_agent.py, exit, quit and bye in mcp_weather_client.py,
\* exit and quit in agent_with_mcp.py.
C18_SessionLoop == SessionLoopProperty(OwnExitWords)

C18_Witness ==
    /\ session.pc = "ended"
    /\ session.loop = "agent_with_mcp"
    /\ session.input = <<<<" ", "h", "i">>, <<" ", "\t">>, <<"Q", "u", "i", "t">>>>
    /\ session.read = 3
    /\ session.done = <<"Exception">>
    /\ session.sent = <<[line |-> 1, text |-> <<"h", "i">>]>>

\* the id of the most recent assistant message among the first n of thread
LatestAssistant(thread, n) ==
    LET found == {i \in 1..n : thread[i].role = "assistant"} IN
    IF found = {} THEN 0 ELSE thread[CHOOSE i \in found : \A j \in found : j <= i].id

PrintedFor(q) == {i \in 1..Len(poll.printed) : poll.printed[i].query = q}

\* C19: in the polling loop of agent.py one run is created per query and
\* polled while it is queued or in progress; a reply is printed only if the
\* run ended completed, and then it is the most recent assistant message of
\* the thread and no other; for any other final status an error line naming
\* the status is printed and no reply; polling has ended exactly when the
\* run has left the queued and in_progress statuses.
C19_PollingLoop ==
    poll.pc # "off" =>
        /\ poll.runs = poll.queries
        /\ poll.pc = "sleeping" <=> poll.status \in {"queued", "in_progress"}
        /\ \A i \in 1..Len(poll.printed) :
              LET line == poll.printed[i] IN
              /\ Cardinality(PrintedFor(line.query)) = 1
              /\ line.what = "reply" =>
                    /\ line.status = "completed"
                    /\ line.id = LatestAssistant(poll.thread, line.at)
              /\ line.what = "error" =>
                    line.status \in {"failed", "cancelled", "expired", "requires_action"}
        /\ (poll.pc \in {"prompt", "ended"} /\ poll.queries > 0) =>
              /\ PrintedFor(poll.queries) # {}
              /\ \A i \in PrintedFor(poll.queries) :
                    poll.printed[i].status = poll.status
                    /\ (poll.status = "completed" <=> poll.printed[i].what = "reply")

IsPrefix(a, b) == Len(a) <= Len(b) /\ SubSeq(b, 1, Len(a)) = a

Backwards(seq) == [i \in 1..Len(seq) |-> seq[Len(seq) + 1 - i]]

\* C20: MCPIntegratedAgent creates JokeAgent, TimeAgent and, only with a
\* server script path, WeatherAgent, in this order, each creation
\* overwriting self.agent, so that every query goes to the agent created
\* last; every context entered is on the exit stack; and on every exit path
\* of main (normal return, ValueError for a missing setting, any other
\* exception) cleanup runs and closes the entered contexts exactly once each
\* in the reverse order of entry.
C20_AgentsAndCleanup ==
    mcp.pc # "off" =>
        /\ IsPrefix(mcp.entered,
                    IF mcp.server_path THEN <<"JokeAgent", "TimeAgent", "WeatherAgent">>
                    ELSE <<"JokeAgent", "TimeAgent">>)
        /\ mcp.agent = IF mcp.entered = <<>> THEN "None"
                       ELSE mcp.entered[Len(mcp.entered)]
        /\ \A i \in 1..Len(mcp.queries) :
              mcp.queries[i].agent =
                 IF mcp.server_path THEN "WeatherAgent" ELSE "TimeAgent"
        /\ mcp.pc \notin {"closing", "exited"} =>
              (mcp.exit_stack = mcp.entered /\ mcp.closed = <<>>)
        /\ mcp.pc = "closing" => IsPrefix(mcp.closed, Backwards(mcp.entered))
        /\ mcp.pc = "exited" =>
              /\ mcp.cleanups = 1
              /\ mcp.exit \in {"returned", "SystemExit", "CancelledError"}
              /\ mcp.closed = Backwards(mcp.entered)
              /\ mcp.exit_stack = <<>>
        /\ (mcp.raised = "ValueError" /\ mcp.pc \in {"finally", "closing", "exited"}) =>
              mcp.exit = "SystemExit"
        /\ mcp.pc \in {"create", "entering", "prompt", "except", "finally"} =>
              mcp.cleanups = 0

C20_Witness ==
    /\ mcp.pc = "exited"
    /\ mcp.server_path
    /\ mcp.entered = <<"JokeAgent", "TimeAgent", "WeatherAgent">>
    /\ mcp.closed = <<"WeatherAgent", "TimeAgent", "JokeAgent">>
    /\ Len(mcp.queries) = 2
    /\ mcp.exit = "returned"

\* C20, the failing paths: a missing setting, and a context that fails to
\* open after two were entered
C20_WitnessValueError ==
    /\ mcp.pc = "exited"
    /\ mcp.raised = "ValueError"
    /\ mcp.exit = "SystemExit"
    /\ mcp.cleanups = 1
    /\ mcp.closed = <<>>

C20_WitnessEnterFails ==
    /\ mcp.pc = "exited"
    /\ mcp.raised = "Exception"
    /\ mcp.entered = <<"JokeAgent", "TimeAgent">>
    /\ mcp.closed = <<"TimeAgent", "JokeAgent">>

====
